---- MODULE Spec2Model ----
(***************************************************************************)
(* The docs provider of provider/docs/src/provider/provider.ts: the        *)
(* settings-driven factory that loads a corpus index (fetchIndex) and the  *)
(* items() method that turns a query into a deduplicated list of items     *)
(* whose titles are suffix-trimmed and then truncated.                     *)
(*                                                                         *)
(* A JavaScript string is a sequence of one-character strings (its UTF-16  *)
(* code units); `undefined` is the value Absent.                           *)
(***************************************************************************)
EXTENDS Integers, Sequences, FiniteSets, TLC

VARIABLES settings, payload, searchTable, pc, io, index, client, error, req

vars == <<settings, payload, searchTable, pc, io, index, client, error, req>>

----------------------------------------------------------------------------
(* Bounds of the model *)

\* number of documents in the corpus of the title specification
MaxDocs == 2
\* length of a ranked result list returned by the search engine
MaxResults == 3
\* the items requests made to one provider: two, so that one can run while
\* the other is suspended
Reqs == {1, 2}

----------------------------------------------------------------------------
(* JavaScript values *)

\* `undefined`: a one-element sequence no string equals (a string's elements
\* are single characters)
Absent == <<"undefined">>

\* JavaScript truthiness of an optional string: undefined and '' are falsy
Truthy(v) == v # Absent /\ v # <<>>

\* the characters String.prototype.trim removes (those the model draws from)
WhiteSpace == {" ", "\t"}

RECURSIVE trimStart(_)
trimStart(s) ==
    IF s # <<>> /\ Head(s) \in WhiteSpace THEN trimStart(Tail(s)) ELSE s

RECURSIVE trimEnd(_)
trimEnd(s) ==
    IF s # <<>> /\ s[Len(s)] \in WhiteSpace
    THEN trimEnd(SubSeq(s, 1, Len(s) - 1))
    ELSE s

\* faulty variant of trim: the query is used as given
trimNothing(s) == s

\* String.prototype.trim
trim(s) == trimEnd(trimStart(s))

\* params.query?.trim()
TrimmedQuery(q) == IF q = Absent THEN Absent ELSE trim(q)

Ellipsis == <<".", ".", ".">>

\* faulty variant of truncate: a text of exactly maxLength is cut too
truncateOffByOne(text, maxLength) ==
    IF Len(text) >= maxLength
    THEN SubSeq(text, 1, maxLength) \o Ellipsis
    ELSE text

\* truncate(text, maxLength)
truncate(text, maxLength) ==
    IF Len(text) > maxLength
    THEN SubSeq(text, 1, maxLength) \o Ellipsis
    ELSE text

\* Math.min(...texts.map(text => text.length))
MinLength(texts) ==
    CHOOSE n \in {Len(texts[k]) : k \in 1..Len(texts)} :
        \A k \in 1..Len(texts) : n <= Len(texts[k])

\* the test of one iteration of the loop of longestCommonSuffix: the
\* character i places from the end is the same in every text as in the first
SameCharFromEnd(texts, i) ==
    LET currentChar == texts[1][Len(texts[1]) - i]
    IN  \A k \in 1..Len(texts) : texts[k][Len(texts[k]) - i] = currentChar

\* the number of characters the loop of longestCommonSuffix prepends: it
\* runs i from 0 while i < minLen, and breaks at the first i that fails the
\* test
SuffixLoop(texts, minLen) ==
    CHOOSE n \in 0..minLen :
        /\ \A i \in 0..(n - 1) : SameCharFromEnd(texts, i)
        /\ n < minLen => ~SameCharFromEnd(texts, n)

\* longestCommonSuffix(texts)
longestCommonSuffix(texts) ==
    IF Len(texts) = 0 THEN <<>>
    ELSE IF Len(texts) = 1 THEN texts[1]
    ELSE LET n == SuffixLoop(texts, MinLength(texts))
         IN  SubSeq(texts[1], Len(texts[1]) - n + 1, Len(texts[1]))

----------------------------------------------------------------------------
(* Documents, search results and items *)

\* title.length must reach suffix.length + MinKept for the suffix to be cut
MinKept == 10
\* truncate(r.title, 50)
TitleMax == 50
\* truncate(doc.content?.textContent, 200)
HoverMax == 200

\* an IndexedDoc: doc.doc is an object {id, url?}, doc.content is optional
IndexedDoc(id, url, hasContent, title, textContent) ==
    [doc |-> [typeof |-> "object", id |-> id, url |-> url],
     content |-> [present |-> hasContent, title |-> title,
                  textContent |-> textContent]]

\* a SearchResult: result.doc is the number of the document
SearchResult(id) == [doc |-> [typeof |-> "number", value |-> id]]

\* isSearchResult(value)
isSearchResult(value) == "doc" \in DOMAIN value /\ value.doc.typeof = "number"

\* doc.content?.title
ContentTitle(doc) == IF doc.content.present THEN doc.content.title ELSE Absent

\* doc.content?.textContent
ContentText(doc) ==
    IF doc.content.present THEN doc.content.textContent ELSE Absent

Untitled == <<"U", "n", "t", "i", "t", "l", "e", "d">>

\* faulty variant of TitleOf: ?? in place of ||, so an empty string is kept
TitleOfNullish(doc) ==
    IF ContentTitle(doc) # Absent THEN ContentTitle(doc)
    ELSE IF doc.doc.url # Absent THEN doc.doc.url
    ELSE Untitled

\* doc.content?.title || doc.doc?.url || 'Untitled'
TitleOf(doc) ==
    IF Truthy(ContentTitle(doc)) THEN ContentTitle(doc)
    ELSE IF Truthy(doc.doc.url) THEN doc.doc.url
    ELSE Untitled

\* the object pushed onto items for one document
ItemOf(doc) ==
    [title |-> TitleOf(doc),
     url |-> doc.doc.url,
     hover |-> IF Truthy(ContentText(doc))
               THEN truncate(ContentText(doc), HoverMax)
               ELSE Absent,
     content |-> ContentText(doc)]

\* createClient(index, ...): the client serves the documents of the index
createClient(idx) == [created |-> TRUE, docs |-> idx.docs]

\* client.doc(id): the document of the corpus with this identifier
clientDoc(cl, id) ==
    cl.docs[CHOOSE k \in 1..Len(cl.docs) :
                /\ cl.docs[k].doc.id = id
                /\ \A j \in 1..(k - 1) : cl.docs[j].doc.id # id]

\* client.search({ text }): the ranked results of the search engine
clientSearch(text) == searchTable[text]

\* faulty variant of SetHas: no identifier is ever found in the Set
SetHasNever(seen, id) == FALSE

\* seenDocIDs.has(id); the Set keeps its elements in insertion order
SetHas(seen, id) == \E k \in 1..Len(seen) : seen[k] = id

\* faulty variant of NewSeenDocIDs: one Set declared outside items() and
\* shared by all requests, holding what any of them has added
HoistedSeenDocIDs ==
    LET added == UNION {{req[r].seenDocIDs[k] : k \in 1..Len(req[r].seenDocIDs)} :
                          r \in Reqs}
    IN  CHOOSE s \in [1..Cardinality(added) -> added] :
            \A id \in added : \E k \in 1..Cardinality(added) : s[k] = id

\* new Set<DocID>()
NewSeenDocIDs == <<>>

\* the for loop over results, from candidate k on
RECURSIVE ItemsLoop(_, _, _, _, _)
ItemsLoop(cl, results, k, seenDocIDs, items) ==
    IF k > Len(results)
    THEN [items |-> items, seenDocIDs |-> seenDocIDs]
    ELSE LET result == results[k]
             doc == IF isSearchResult(result)
                    THEN clientDoc(cl, result.doc.value)
                    ELSE result
         IN  IF SetHas(seenDocIDs, doc.doc.id)
             THEN ItemsLoop(cl, results, k + 1, seenDocIDs, items)
             ELSE ItemsLoop(cl, results, k + 1,
                            Append(seenDocIDs, doc.doc.id),
                            Append(items, ItemOf(doc)))

\* faulty variant of ShouldTrim: no length guard
ShouldTrimAlways(title, suffix) == TRUE

\* faulty variant of ShouldTrim: > in place of >=
ShouldTrimStrict(title, suffix) == Len(title) > Len(suffix) + MinKept

\* r.title.length >= suffix.length + 10
ShouldTrim(title, suffix) == Len(title) >= Len(suffix) + MinKept

\* items.map(r => r.title)
Titles(items) == [k \in 1..Len(items) |-> items[k].title]

\* the block under `if (items.length >= 2)`
TrimCommonSuffix(items) ==
    IF Len(items) >= 2
    THEN LET suffix == longestCommonSuffix(Titles(items))
         IN  IF suffix # <<>>
             THEN [k \in 1..Len(items) |->
                     IF ShouldTrim(items[k].title, suffix)
                     THEN [items[k] EXCEPT
                             !.title = SubSeq(@, 1, Len(@) - Len(suffix))]
                     ELSE items[k]]
             ELSE items
    ELSE items

\* for (const r of items) r.title = truncate(r.title, 50)
TruncateTitles(items) ==
    [k \in 1..Len(items) |->
        [items[k] EXCEPT !.title = truncate(@, TitleMax)]]

\* faulty variant of PostProcess: the titles are truncated before the common
\* suffix is looked for
PostProcessReversed(items) ==
    [trimmed |-> TruncateTitles(items),
     out |-> TrimCommonSuffix(TruncateTitles(items))]

\* the two passes over the built items, in the order of the code: `trimmed`
\* is items after the first pass, `out` is what items() returns
PostProcess(items) ==
    [trimmed |-> TrimCommonSuffix(items),
     out |-> TruncateTitles(TrimCommonSuffix(items))]

----------------------------------------------------------------------------
(* Locators and the index loader *)

FileUrl == <<"f", "i", "l", "e", ":", "/", "i">>
HttpUrl == <<"h", "t", "t", "p", ":", "/", "h">>
HttpsUrl == <<"h", "t", "t", "p", "s", ":", "/", "h">>
\* a data: URL, which fetch serves from the URL itself
DataUrl == <<"d", "a", "t", "a", ":", "x">>
\* a string with no scheme: new URL(urlStr) throws
NoSchemeUrl == <<"i", "d", "x">>

Locators == {FileUrl, HttpUrl, HttpsUrl, DataUrl, NoSchemeUrl}

SchemeChars == {"a", "d", "e", "f", "h", "i", "l", "p", "s", "t", "x"}

\* the positions of urlStr where a scheme ends: a ':' after one or more
\* scheme characters
SchemeEnds(urlStr) ==
    {k \in 2..Len(urlStr) :
        /\ urlStr[k] = ":"
        /\ \A j \in 1..(k - 1) : urlStr[j] \in SchemeChars}

\* whether new URL(urlStr) returns (it throws a TypeError otherwise)
UrlParses(urlStr) == SchemeEnds(urlStr) # {}

\* new URL(urlStr).protocol: the scheme with its ':'
UrlProtocol(urlStr) ==
    SubSeq(urlStr, 1, CHOOSE k \in SchemeEnds(urlStr) :
                          \A j \in SchemeEnds(urlStr) : k <= j)

\* faulty variant of IsFileProtocol: compared with 'file', without its colon
IsFileProtocolNoColon(protocol) == protocol = <<"f", "i", "l", "e">>

\* url.protocol === 'file:'
IsFileProtocol(protocol) == protocol = <<"f", "i", "l", "e", ":">>

\* faulty variant of RespOk: no upper end of the range
RespOkNoUpper(status) == status >= 200

\* resp.ok: the status is in the range 200-299
RespOk(status) == status >= 200 /\ status <= 299

\* the statuses a response may carry
Statuses == {200, 404, 500}

NoError == [name |-> "none", url |-> <<>>, status |-> 0]

\* new Error(`Failed to fetch corpus index from ${urlStr} with HTTP status
\* ${resp.status}`)
HttpError(urlStr, status) == [name |-> "Error", url |-> urlStr, status |-> status]

\* an error thrown by a callee: new URL, readFile, fetch, JSON.parse, resp.json
Thrown(name) == [name |-> name, url |-> <<>>, status |-> 0]

NoIndex == [loaded |-> FALSE, docs |-> <<>>]
NoClient == [created |-> FALSE, docs |-> <<>>]

\* fromJSON(JSON.parse(text)): the corpus index of a payload that parses
fromJSON(body) == [loaded |-> TRUE, docs |-> body.docs]

\* a request that has not been made
IdleReq ==
    [pc |-> "idle", query |-> Absent, text |-> Absent, searches |-> <<>>,
     results |-> <<>>, seenDocIDs |-> <<>>, built |-> <<>>, trimmed |-> <<>>,
     out |-> <<>>]

\* the factory fails: the promise of the provider is rejected
Reject(err) ==
    /\ pc' = "rejected"
    /\ error' = err
    /\ UNCHANGED <<index, client>>

\* the body parsed and deserialized: index and client exist, the provider
\* object with its items method is returned
Resolve(body) ==
    /\ pc' = "ready"
    /\ index' = fromJSON(body)
    /\ client' = createClient(fromJSON(body))
    /\ UNCHANGED error

\* the factory is called with the settings: fetchIndex runs up to its first
\* await
FactoryCall ==
    /\ pc = "start"
    /\ IF ~UrlParses(settings.index)
       THEN Reject(Thrown("TypeError")) /\ UNCHANGED io
       ELSE IF IsFileProtocol(UrlProtocol(settings.index))
       THEN /\ pc' = "reading"
            /\ io' = [io EXCEPT !.reads = @ + 1]
            /\ UNCHANGED <<index, client, error>>
       ELSE /\ pc' = "fetching"
            /\ io' = [io EXCEPT !.gets = @ + 1]
            /\ UNCHANGED <<index, client, error>>
    /\ UNCHANGED <<settings, payload, searchTable, req>>

\* readFile settles: it rejects, or its text goes through JSON.parse and
\* fromJSON
ReadFileSettles ==
    /\ pc = "reading"
    /\ \E readable \in BOOLEAN :
          IF ~readable
          THEN Reject(Thrown("ReadError")) /\ UNCHANGED io
          ELSE /\ io' = [io EXCEPT !.parses = @ + 1]
               /\ IF payload.json
                  THEN Resolve(payload)
                  ELSE Reject(Thrown("SyntaxError"))
    /\ UNCHANGED <<settings, payload, searchTable, req>>

\* fetch settles: it rejects, or it returns a response whose status is
\* checked
FetchSettles ==
    /\ pc = "fetching"
    /\ \/ Reject(Thrown("FetchError")) /\ UNCHANGED io
       \/ \E status \in Statuses :
             /\ io' = [io EXCEPT !.status = status]
             /\ IF ~RespOk(status)
                THEN Reject(HttpError(settings.index, status))
                ELSE /\ pc' = "parsing"
                     /\ UNCHANGED <<index, client, error>>
    /\ UNCHANGED <<settings, payload, searchTable, req>>

\* resp.json() settles
JsonSettles ==
    /\ pc = "parsing"
    /\ io' = [io EXCEPT !.parses = @ + 1]
    /\ IF payload.json
       THEN Resolve(payload)
       ELSE Reject(Thrown("SyntaxError"))
    /\ UNCHANGED <<settings, payload, searchTable, req>>

----------------------------------------------------------------------------
(* items(params) *)

\* items() from the loop to its return, on the candidates `results`
Finish(r, q, query, results) ==
    LET loop == ItemsLoop(client, results, 1, NewSeenDocIDs, <<>>)
        post == PostProcess(loop.items)
    IN  req' = [req EXCEPT ![r] =
                  [@ EXCEPT !.pc = "done",
                            !.query = q,
                            !.text = query,
                            !.results = results,
                            !.seenDocIDs = loop.seenDocIDs,
                            !.built = loop.items,
                            !.trimmed = post.trimmed,
                            !.out = post.out]]

\* items({ query: q }) is called on the provider: without a query it runs to
\* its return, with one it calls client.search and is suspended
ItemsCall(r, q) ==
    /\ pc = "ready"
    /\ req[r].pc = "idle"
    /\ LET query == TrimmedQuery(q)
       IN  IF Truthy(query)
           THEN req' = [req EXCEPT ![r] =
                          [@ EXCEPT !.pc = "awaitSearch",
                                    !.query = q,
                                    !.text = query,
                                    !.searches = Append(@, query)]]
           ELSE Finish(r, q, query, client.docs)
    /\ UNCHANGED <<settings, payload, searchTable, pc, io, index, client, error>>

\* client.search settles with the ranked results: items() runs to its return
SearchSettles(r) ==
    /\ req[r].pc = "awaitSearch"
    /\ Finish(r, req[r].query, req[r].text, clientSearch(req[r].text))
    /\ UNCHANGED <<settings, payload, searchTable, pc, io, index, client, error>>

----------------------------------------------------------------------------
(* Inputs *)

\* the raw queries of the requests: none, an empty and a whitespace one, a
\* padded one that trims to the text "a", and "b"
Queries == {Absent, <<>>, <<" ", "\t">>, <<" ", "a", "\t">>, <<"b">>}

\* the texts the search engine can be asked
Texts == {TrimmedQuery(q) : q \in {x \in Queries : Truthy(TrimmedQuery(x))}}

\* sequences over S of length at most n
SeqsUpTo(S, n) == UNION {[1..m -> S] : m \in 0..n}

Idle == [r \in Reqs |-> IdleReq]

InitCommon ==
    /\ pc = "start"
    /\ io = [reads |-> 0, gets |-> 0, parses |-> 0, status |-> 0]
    /\ index = NoIndex
    /\ client = NoClient
    /\ error = NoError
    /\ req = Idle

\* the corpus of the loader and request specifications: two documents, one
\* with content and one without
CorpusDocs ==
    <<IndexedDoc(1, <<"u">>, TRUE, <<"A">>, <<"x", "y">>),
      IndexedDoc(2, <<"v">>, FALSE, Absent, Absent)>>

\* what the locator holds: a body that does not parse, or a corpus
LoadPayloads ==
    {[json |-> FALSE, docs |-> <<>>]}
        \cup {[json |-> TRUE, docs |-> SubSeq(CorpusDocs, 1, n)] :
                    n \in 0..Len(CorpusDocs)}

\* the loader: any locator, any payload
Init ==
    /\ settings \in [index : Locators]
    /\ payload \in LoadPayloads
    /\ searchTable = [t \in Texts |-> <<>>]
    /\ InitCommon

Next ==
    \/ FactoryCall
    \/ ReadFileSettles
    \/ FetchSettles
    \/ JsonSettles
    \/ \E r \in Reqs : ItemsCall(r, Absent)

Spec == Init /\ [][Next]_vars

\* the ranked lists of the search engine: references to documents of the
\* corpus, a document possibly several times (one per matching chunk)
Rankings ==
    SeqsUpTo({SearchResult(CorpusDocs[k].doc.id) : k \in 1..Len(CorpusDocs)},
             MaxResults)

\* requests with queries against a loaded corpus, any search engine
InitReq ==
    /\ settings = [index |-> FileUrl]
    /\ payload = [json |-> TRUE, docs |-> CorpusDocs]
    /\ searchTable \in [Texts -> Rankings]
    /\ InitCommon

NextReq ==
    \/ FactoryCall
    \/ ReadFileSettles
    \/ \E r \in Reqs : \E q \in Queries : ItemsCall(r, q)
    \/ \E r \in Reqs : SearchSettles(r)

SpecReq == InitReq /\ [][NextReq]_vars

----------------------------------------------------------------------------
(* Titles *)

\* n copies of the character c
Rep(c, n) == [k \in 1..n |-> c]

\* " Docs": a site name that titles end with
SiteTail == <<" ", "D", "o", "c", "s">>

\* "Install - Foo Docs"; the "-" stands for the dash U+2014 of the title,
\* one UTF-16 code unit like it
InstallTitle ==
    <<"I", "n", "s", "t", "a", "l", "l",
      " ", "-", " ", "F", "o", "o", " ", "D", "o", "c", "s">>

\* "Configure - Foo Docs", with the same dash
ConfigureTitle ==
    <<"C", "o", "n", "f", "i", "g", "u", "r", "e",
      " ", "-", " ", "F", "o", "o", " ", "D", "o", "c", "s">>

\* the lengths of the part of a title before its tail: around the 10
\* characters the suffix trim keeps, around the 50 of the truncation, and 75
TitleLens == {0, 1, 9, 10, 11, 45, 46, 50, 51, 75}

\* titles: a run of one character, then nothing or the site name
PoolTitles ==
    {Rep(c, n) \o t : c \in {"a", "b"}, n \in TitleLens, t \in {<<>>, SiteTail}}
        \cup {InstallTitle, ConfigureTitle}

PoolUrl == <<"u", "r", "l">>

\* the documents of the title specification, before their identifiers: one
\* per title, and the ones with a title, a URL or a content missing or empty
DocShapes ==
    {IndexedDoc(0, Absent, TRUE, t, Absent) : t \in PoolTitles}
        \cup {IndexedDoc(0, u, FALSE, Absent, Absent) :
                u \in {Absent, <<>>, PoolUrl}}
        \cup {IndexedDoc(0, u, TRUE, t, <<"x">>) :
                u \in {<<>>, PoolUrl}, t \in {Absent, <<>>}}

\* a corpus of these documents: the identifier of a document is its position
TitleCorpora ==
    {[k \in 1..Len(c) |-> [c[k] EXCEPT !.doc.id = k]] :
        c \in SeqsUpTo(DocShapes, MaxDocs)}

\* query-less requests against a corpus of any titles
InitTitle ==
    /\ settings = [index |-> FileUrl]
    /\ payload \in [json : {TRUE}, docs : TitleCorpora]
    /\ searchTable = [t \in Texts |-> <<>>]
    /\ InitCommon

NextTitle ==
    \/ FactoryCall
    \/ ReadFileSettles
    \/ ItemsCall(1, Absent)

SpecTitle == InitTitle /\ [][NextTitle]_vars

----------------------------------------------------------------------------
(* Properties: definitions they share.  None of them uses the operators of *)
(* the pipeline above: each says what the result must be, not how the code *)
(* computes it.                                                            *)

Done(r) == req[r].pc = "done"

\* q is no query: absent, empty or whitespace only
IsBlank(q) == q = Absent \/ \A k \in 1..Len(q) : q[k] \in WhiteSpace

\* a non-blank q without its surrounding whitespace
Stripped(q) ==
    LET inked == {k \in 1..Len(q) : q[k] \notin WhiteSpace}
        first == CHOOSE k \in inked : \A j \in inked : k <= j
        last == CHOOSE k \in inked : \A j \in inked : j <= k
    IN  SubSeq(q, first, last)

\* the identifiers of the candidates of request r: the corpus listing without
\* a query, the ranked results of the search engine with one
CandidateIds(r) ==
    IF IsBlank(req[r].query)
    THEN [k \in 1..Len(payload.docs) |-> payload.docs[k].doc.id]
    ELSE LET ranked == searchTable[Stripped(req[r].query)]
         IN  [k \in 1..Len(ranked) |-> ranked[k].doc.value]

\* the position of the first occurrence of id in ids
FirstAt(ids, id) ==
    CHOOSE k \in 1..Len(ids) :
        ids[k] = id /\ \A j \in 1..(k - 1) : ids[j] # id

\* d is ids with every occurrence of an identifier after its first removed
IsFirstOccurrences(d, ids) ==
    /\ {d[k] : k \in 1..Len(d)} = {ids[k] : k \in 1..Len(ids)}
    /\ \A i, j \in 1..Len(d) : i < j => FirstAt(ids, d[i]) < FirstAt(ids, d[j])

\* the document of the stored corpus with this identifier
StoredDoc(id) ==
    payload.docs[CHOOSE k \in 1..Len(payload.docs) : payload.docs[k].doc.id = id]

\* the last n characters of t
LastChars(t, n) == SubSeq(t, Len(t) - n + 1, Len(t))

\* the last n characters of every title are the same
SharedSuffixLen(titles, n) ==
    \A k \in 1..Len(titles) :
        Len(titles[k]) >= n /\ LastChars(titles[k], n) = LastChars(titles[1], n)

\* the length of the longest string that is a suffix of every title
CommonSuffixLen(titles) ==
    CHOOSE n \in 0..Len(titles[1]) :
        /\ SharedSuffixLen(titles, n)
        /\ \A m \in (n + 1)..Len(titles[1]) : ~SharedSuffixLen(titles, m)

\* what Step 4 makes of title t in a list whose common suffix has s characters
SuffixTrimmed(t, s) == IF Len(t) >= s + 10 THEN SubSeq(t, 1, Len(t) - s) ELSE t

\* what Step 4 makes of a list of titles
Step4Titles(titles) ==
    IF Len(titles) >= 2
    THEN [k \in 1..Len(titles) |->
            SuffixTrimmed(titles[k], CommonSuffixLen(titles))]
    ELSE titles

\* what Step 5 makes of title t
Clamped(t) == IF Len(t) > 50 THEN SubSeq(t, 1, 50) \o <<".", ".", ".">> ELSE t

----------------------------------------------------------------------------
(* Deduplication and candidate selection (SpecReq) *)

\* C1: the identifiers of the returned items are the candidate identifiers
\* (corpus listing without a query, ranked search results with one) with every
\* occurrence after the first removed: each once, in first-occurrence order,
\* one item per identifier, built from that document.
C1_FirstOccurrenceOrder ==
    \A r \in Reqs :
        Done(r) =>
            LET d == req[r].seenDocIDs
                out == req[r].out
            IN  /\ IsFirstOccurrences(d, CandidateIds(r))
                /\ Len(out) = Len(d)
                /\ \A k \in 1..Len(d) : out[k].url = StoredDoc(d[k]).doc.url

\* a finished request whose ranked results name document 2, then 1, then 2
\* again
C1_Witness ==
    \E r \in Reqs :
        /\ Done(r)
        /\ CandidateIds(r) = <<2, 1, 2>>
        /\ req[r].seenDocIDs = <<2, 1>>

\* C2: a request whose query is absent, empty or whitespace never invokes
\* search and takes the corpus listing in stored order as its candidates; any
\* other request invokes search exactly once, with the trimmed text.
C2_SearchOnlyForText ==
    \A r \in Reqs :
        req[r].pc # "idle" =>
            IF IsBlank(req[r].query)
            THEN /\ req[r].searches = <<>>
                 /\ Done(r)
                 /\ req[r].results = payload.docs
            ELSE req[r].searches = <<Stripped(req[r].query)>>

\* one request with a whitespace query that never searched, and one whose
\* padded query reached search trimmed
C2_Witness ==
    \E r1, r2 \in Reqs :
        /\ Done(r1) /\ req[r1].query = <<" ", "\t">> /\ req[r1].searches = <<>>
        /\ Done(r2) /\ req[r2].query = <<" ", "a", "\t">>
        /\ req[r2].searches = <<<<"a">>>>

\* C10: requests do not affect one another: two finished requests with the
\* same trimmed query have the same result, no candidate document of a
\* request is missing from its result, and the loaded corpus stays as stored.
C10_RequestsIndependent ==
    /\ \A r1, r2 \in Reqs :
          /\ Done(r1) /\ Done(r2)
          /\ \/ IsBlank(req[r1].query) /\ IsBlank(req[r2].query)
             \/ /\ ~IsBlank(req[r1].query) /\ ~IsBlank(req[r2].query)
                /\ Stripped(req[r1].query) = Stripped(req[r2].query)
          => req[r1].out = req[r2].out
    /\ \A r \in Reqs :
          Done(r) =>
              LET ids == CandidateIds(r)
              IN  /\ \A k \in 1..Len(ids) :
                        \E j \in 1..Len(req[r].out) :
                            req[r].out[j].url = StoredDoc(ids[k]).doc.url
                  /\ Len(req[r].out) = Cardinality({ids[k] : k \in 1..Len(ids)})
    /\ index.loaded => index.docs = payload.docs /\ client.docs = payload.docs

\* two finished requests that were both suspended on the search engine, with
\* different texts, and that both returned document 1
C10_Witness ==
    \E r1, r2 \in Reqs :
        /\ Done(r1) /\ Done(r2)
        /\ req[r1].text = <<"a">> /\ req[r2].text = <<"b">>
        /\ \E k \in 1..Len(req[r1].seenDocIDs) : req[r1].seenDocIDs[k] = 1
        /\ \E k \in 1..Len(req[r2].seenDocIDs) : req[r2].seenDocIDs[k] = 1

----------------------------------------------------------------------------
(* Titles (SpecTitle): request 1 is the request of that specification *)

Install == <<"I", "n", "s", "t", "a", "l", "l">>
Configure == <<"C", "o", "n", "f", "i", "g", "u", "r", "e">>

\* C3 as stated: the items titled "Install - Foo Docs" and "Configure - Foo
\* Docs" are returned as "Install" and "Configure".
C3_AsStated ==
    Done(1) /\ Titles(req[1].built) = <<InstallTitle, ConfigureTitle>>
        => Titles(req[1].out) = <<Install, Configure>>

\* C3, amended: the two titles share the 11-character suffix " - Foo Docs",
\* but with 18 and 20 characters neither reaches the 21 of the length guard,
\* so both are returned unchanged.
C3_SuffixKept ==
    Done(1) /\ Titles(req[1].built) = <<InstallTitle, ConfigureTitle>>
        => /\ CommonSuffixLen(Titles(req[1].built)) = 11
           /\ Titles(req[1].out) = <<InstallTitle, ConfigureTitle>>

\* the request on the corpus of these two documents has returned
C3_Witness ==
    Done(1) /\ Titles(req[1].built) = <<InstallTitle, ConfigureTitle>>

\* C4: in a list of 2 or more items with longest common title suffix S, a
\* title of at least len(S) + 10 characters loses its last len(S) characters
\* and a shorter one is unchanged; with S empty or fewer than 2 items no title
\* changes.
C4_SuffixTrim ==
    Done(1) =>
        LET b == Titles(req[1].built)
            t == Titles(req[1].trimmed)
        IN  /\ Len(t) = Len(b)
            /\ IF Len(b) >= 2 /\ CommonSuffixLen(b) > 0
               THEN \A k \in 1..Len(b) :
                       IF Len(b[k]) >= CommonSuffixLen(b) + 10
                       THEN t[k] = SubSeq(b[k], 1, Len(b[k]) - CommonSuffixLen(b))
                       ELSE t[k] = b[k]
               ELSE t = b

\* a list with a common suffix where one title is exactly long enough and
\* was cut, and another is one character short and was kept
C4_Witness ==
    /\ Done(1)
    /\ Len(req[1].built) = 2
    /\ LET b == Titles(req[1].built)
           t == Titles(req[1].trimmed)
           s == CommonSuffixLen(b)
       IN  /\ s = 5
           /\ Len(b[1]) = s + 10 /\ Len(t[1]) = 10
           /\ Len(b[2]) = s + 9 /\ t[2] = b[2]

\* C5 as stated: every returned title has at most 50 characters, and one that
\* had more than 50 after Step 4 ends with the ellipsis marker.
C5_AsStated ==
    Done(1) =>
        \A k \in 1..Len(req[1].out) :
            /\ Len(req[1].out[k].title) <= 50
            /\ Len(req[1].trimmed[k].title) > 50 =>
                  LastChars(req[1].out[k].title, 3) = <<".", ".", ".">>

\* C5, amended: a title of more than 50 characters after Step 4 is returned
\* as its first 50 characters followed by the 3-character marker "...", 53
\* characters in all; any other title is returned as it is.  No returned
\* title has more than 53 characters.
C5_ClampedTo53 ==
    Done(1) =>
        /\ Len(req[1].out) = Len(req[1].trimmed)
        /\ \A k \in 1..Len(req[1].out) :
              LET t == req[1].trimmed[k].title
                  o == req[1].out[k].title
              IN  /\ Len(o) <= 53
                  /\ IF Len(t) > 50
                     THEN o = SubSeq(t, 1, 50) \o <<".", ".", ".">> /\ Len(o) = 53
                     ELSE o = t

\* a list with a title of exactly 50 characters, returned as it is, and one
\* of 51, returned with 53
C5_Witness ==
    /\ Done(1)
    /\ \E k \in 1..Len(req[1].out) :
          Len(req[1].trimmed[k].title) = 50 /\ Len(req[1].out[k].title) = 50
    /\ \E k \in 1..Len(req[1].out) :
          Len(req[1].trimmed[k].title) = 51 /\ Len(req[1].out[k].title) = 53

\* C6: the common suffix is that of the untruncated titles, and a returned
\* title is the truncation of the suffix-trimmed title; a title of 80
\* characters in a list with a 5-character common suffix is cut to 75 and
\* then truncated with the marker appended.
C6_TrimThenTruncate ==
    Done(1) =>
        LET b == Titles(req[1].built)
            o == Titles(req[1].out)
        IN  /\ Len(o) = Len(b)
            /\ \A k \in 1..Len(b) : o[k] = Clamped(Step4Titles(b)[k])
            /\ Len(b) >= 2 /\ CommonSuffixLen(b) = 5 =>
                  \A k \in 1..Len(b) :
                      Len(b[k]) = 80 =>
                          /\ Len(req[1].trimmed[k].title) = 75
                          /\ o[k] = SubSeq(b[k], 1, 50) \o <<".", ".", ".">>

\* two titles of 80 characters whose common suffix is the 5 characters of the
\* site name: both are longer than 50, the suffix is found, both are cut to
\* 75 and truncated
C6_Witness ==
    /\ Done(1)
    /\ Len(req[1].built) = 2
    /\ CommonSuffixLen(Titles(req[1].built)) = 5
    /\ \A k \in 1..2 :
          /\ Len(req[1].built[k].title) = 80
          /\ Len(req[1].trimmed[k].title) = 75
          /\ Len(req[1].out[k].title) = 53

\* the title and the URL of the document item k of request 1 was built from
\* (the corpus listing has no identifier twice)
DocTitle(k) ==
    IF payload.docs[k].content.present
    THEN payload.docs[k].content.title
    ELSE Absent

DocUrl(k) == payload.docs[k].doc.url

\* C7 as stated: the title of an item is the title of the document if present
\* and non-empty, else its URL if present, whatever its value, else
\* "Untitled".
C7_AsStated ==
    Done(1) =>
        /\ Len(req[1].built) = Len(payload.docs)
        /\ \A k \in 1..Len(req[1].built) :
              req[1].built[k].title =
                  IF DocTitle(k) # Absent /\ DocTitle(k) # <<>> THEN DocTitle(k)
                  ELSE IF DocUrl(k) # Absent THEN DocUrl(k)
                  ELSE Untitled

\* C7, amended: the title of an item is the title of the document if present
\* and non-empty, else its URL if present and non-empty, else "Untitled";
\* every document of the listing yields an item.
C7_TitleFallback ==
    Done(1) =>
        /\ Len(req[1].built) = Len(payload.docs)
        /\ \A k \in 1..Len(req[1].built) :
              req[1].built[k].title =
                  IF DocTitle(k) # Absent /\ DocTitle(k) # <<>> THEN DocTitle(k)
                  ELSE IF DocUrl(k) # Absent /\ DocUrl(k) # <<>> THEN DocUrl(k)
                  ELSE Untitled

\* a document whose title is missing and whose URL is the empty string, and
\* one with neither: both items are titled "Untitled"
C7_Witness ==
    /\ Done(1)
    /\ \E k \in 1..Len(req[1].built) :
          /\ DocTitle(k) = Absent /\ DocUrl(k) = <<>>
          /\ req[1].built[k].title = Untitled
    /\ \E k \in 1..Len(req[1].built) :
          /\ DocTitle(k) = Absent /\ DocUrl(k) = Absent
          /\ req[1].built[k].title = Untitled

----------------------------------------------------------------------------
(* The loader (Spec) *)

\* the locator has a scheme other than file, http and https
OtherScheme == settings.index = DataUrl

C9_NoItemsWithoutIndex ==
    /\ \A r \in Reqs :
          req[r].pc # "idle" => pc = "ready" /\ index.loaded /\ client.created
    /\ pc # "ready" => ~index.loaded /\ ~client.created
    /\ pc = "ready" => payload.json /\ index.docs = payload.docs /\ error = NoError
    /\ pc = "rejected" =>
          /\ error.name # "none"
          /\ \A r \in Reqs : req[r] = IdleReq
    /\ io.status # 0 /\ ~(io.status \in 200..299) =>
          /\ pc = "rejected"
          /\ error = [name |-> "Error", url |-> settings.index,
                      status |-> io.status]
          /\ io.parses = 0

\* a load that failed on status 404
C9_Witness ==
    /\ pc = "rejected"
    /\ io.status = 404
    /\ error.status = 404
    /\ error.url = HttpUrl

====
